---- MODULE Spec2Model ----
(***************************************************************************)
(* tsarray: generic type-safe dynamic array (src/src/tsarray.c) with its   *)
(* overflow-safe arithmetic (src/src/common.h).                            *)
(*                                                                         *)
(* Machine integers are scaled down: the signed index type ends at         *)
(* LONG_MAX, the unsigned types at ULONG_MAX = SIZE_MAX = 2*LONG_MAX + 1   *)
(* (the LP64 relation between long, unsigned long and size_t).  The heap   *)
(* is a small set of addresses, each holding a block of element slots.     *)
(* A slot holds a client value (a member of Vals) or Junk (indeterminate   *)
(* bytes).  The word is a power of two wide (ULONG_MAX + 1 = 16), as on a   *)
(* real machine.                                                           *)
(***************************************************************************)
EXTENDS Integers, Sequences, FiniteSets, TLC

VARIABLES
    arr,    \* descriptors: id -> struct _tsarray_priv (live or not allocated)
    heap,   \* allocator memory: address -> block of element slots
    call,   \* the last API call made (operation, arguments, allocator verdicts)
    ret,    \* what that call returned
    abs     \* per container: the abstract sequence the client has built

vars == <<arr, heap, call, ret, abs>>

----------------------------------------------------------------------------
(* Bounds of the model *)

LONG_MAX == 7

ULONG_MAX == 2 * LONG_MAX + 1
SIZE_MAX == ULONG_MAX
ULONG_MOD == ULONG_MAX + 1

Ids == {1, 2}
Addrs == 1..(Cardinality(Ids) + 1)
\* The engine moves elements with memcpy and memmove and never looks at their
\* bytes: two values are enough to tell any two positions apart.
Vals == {1, 2}
\* an element size for which two elements are addressable but three are not
BigObj == SIZE_MAX \div 2
BigSizes == {BigObj, BigObj + 1}
ObjSizes == {1} \cup BigSizes

NULL == 0
Junk == 0

TSARRAY_EOK == 0
TSARRAY_EINVAL == -1
TSARRAY_ENOENT == -2
TSARRAY_ENOMEM == -3
TSARRAY_EOVERFLOW == -4
\* encodings of a constructor's NULL result and of a fatal signal
RET_NULL == 1
RET_CRASH == 2

MARGIN_RATIO == 8
MIN_MARGIN == 4
MIN_USAGE_RATIO == 2
HINT_STDDEV_RATIO == 3

----------------------------------------------------------------------------
(* Arithmetic guards, common.h *)

Min(x, y) == IF x < y THEN x ELSE y
Max(x, y) == IF x > y THEN x ELSE y
labs(x) == IF x < 0 THEN -x ELSE x

\* unsigned long arithmetic wraps
UWrap(x) == x % ULONG_MOD

can_ulong_add(x, y) == x <= ULONG_MAX - y

ulong_add(x, y) == IF can_ulong_add(x, y) THEN x + y ELSE ULONG_MAX

\* (a guard that subtracts before it has compared y with the cap)
can_add_ulong_within_unguarded(x, y, cap) == x <= UWrap(cap - y)

can_add_ulong_within(x, y, cap) ==
    y <= cap /\ x <= cap /\ x <= UWrap(cap - y)

ulong_add_capped(x, y, cap) ==
    IF can_add_ulong_within(x, y, cap) THEN UWrap(x + y) ELSE cap

can_add_within_long(x, y) == can_add_ulong_within(x, y, LONG_MAX)

ulong_add_capped_long(x, y) == ulong_add_capped(x, y, LONG_MAX)

ulong_fits_in_long(x) == x <= LONG_MAX

can_size_mult(x, y) == (y <= 1) \/ (x <= SIZE_MAX \div y)

is_valid_index(x, obj_size) ==
    /\ x <= LONG_MAX
    /\ x <= SIZE_MAX
    /\ can_size_mult(x, obj_size)
    /\ UWrap(SIZE_MAX - UWrap(x * obj_size)) >= UWrap(obj_size - 1)

\* (a sign test that only asks whether both are positive or both are not)
same_sign_loose(a, b) == (a > 0) = (b > 0)

same_sign(a, b) == ((a > 0) = (b > 0)) /\ ((a < 0) = (b < 0))

----------------------------------------------------------------------------
(* Capacity planners, tsarray.c *)

\* (a range that reaches down to a third of the capacity)
in_hysteresis_range_third(old_capacity, new_len) ==
    new_len <= old_capacity /\ new_len >= old_capacity \div 3

\* (a range that leaves out the full capacity)
in_hysteresis_range_not_full(old_capacity, new_len) ==
    new_len < old_capacity /\ new_len >= old_capacity \div MIN_USAGE_RATIO

\* new_len is within the hysteresis range of old_capacity
in_hysteresis_range(old_capacity, new_len) ==
    new_len <= old_capacity /\ new_len >= old_capacity \div MIN_USAGE_RATIO

\* (a margin test that forgets the size of the buffer in bytes)
margin_overflows_long_only(obj_size, new_len, margin) ==
    ~can_add_within_long(new_len, margin)

\* the margin makes the capacity overflow
margin_overflows(obj_size, new_len, margin) ==
    \/ ~can_add_within_long(new_len, margin)
    \/ UWrap(new_len + margin) > SIZE_MAX
    \/ ~can_size_mult(UWrap(new_len + margin), obj_size)

\* (a planner that adds its margin without asking whether it fits)
calc_new_capacity_always_margin(obj_size, old_capacity, new_len) ==
    IF in_hysteresis_range(old_capacity, new_len)
    THEN old_capacity
    ELSE UWrap(new_len + new_len \div MARGIN_RATIO + MIN_MARGIN)

calc_new_capacity(obj_size, old_capacity, new_len) ==
    IF in_hysteresis_range(old_capacity, new_len)
    THEN old_capacity
    ELSE LET margin == new_len \div MARGIN_RATIO + MIN_MARGIN
         IN UWrap(new_len + (IF margin_overflows(obj_size, new_len, margin)
                             THEN 0 ELSE margin))

\* (a ramp of slope one)
hint_ramp_flat(new_len, two_stddev_low) == new_len

\* the linear increase between two_stddev_low and one_stddev_low
hint_ramp(new_len, two_stddev_low) ==
    UWrap(UWrap(new_len - two_stddev_low) + new_len)

\* (a hinted planner that tests its margin as the default planner does)
calc_new_capacity_with_hint_mult_only(obj_size, old_capacity, new_len, len_hint) ==
    IF old_capacity >= new_len THEN old_capacity
    ELSE LET new_capacity == ulong_add_capped_long(new_len, MIN_MARGIN)
         IN IF ~can_size_mult(new_capacity, obj_size)
            THEN new_len ELSE new_capacity

calc_new_capacity_with_hint(obj_size, old_capacity, new_len, len_hint) ==
    LET est_stddev == len_hint \div HINT_STDDEV_RATIO
        one_stddev_low == UWrap(len_hint - est_stddev)
        one_stddev_high == ulong_add(len_hint, est_stddev)
        two_stddev_low == UWrap(len_hint - UWrap(2 * est_stddev))
    IN IF /\ old_capacity >= new_len
          /\ old_capacity >= two_stddev_low
          /\ \/ old_capacity <= one_stddev_high
             \/ UWrap(old_capacity - new_len) <= est_stddev
       THEN old_capacity
       ELSE IF new_len < two_stddev_low THEN two_stddev_low
       ELSE IF new_len < one_stddev_low
            THEN hint_ramp(new_len, two_stddev_low)
       ELSE IF new_len < len_hint THEN len_hint
       ELSE LET new_capacity == ulong_add_capped_long(new_len, MIN_MARGIN)
            IN IF ~is_valid_index(new_capacity, obj_size)
               THEN new_len ELSE new_capacity

----------------------------------------------------------------------------
(* The system allocator: malloc/realloc/free over Addrs *)

FreeBlk == [live |-> FALSE, mem |-> <<>>]

\* realloc keeps the first min(old, new) elements; the rest is indeterminate
realloc_copy(old, n) ==
    [i \in 1..n |-> IF i <= Len(old) THEN old[i] ELSE Junk]

\* where a new or moved block may be placed: in place, or at a free address
\* (which free address is immaterial, so the lowest stands for all of them)
realloc_places(h, ptr) ==
    LET unused == {a \in Addrs : ~h[a].live}
    IN ({ptr} \ {NULL}) \cup
       (IF unused = {} THEN {}
        ELSE {CHOOSE a \in unused : \A b \in unused : a <= b})

\* realloc(ptr, nbytes): every outcome the allocator may produce.  A request
\* of zero bytes releases the old block and returns NULL or a unique pointer
\* to an empty block; any other request may fail (NULL, old block untouched)
\* or return the block, in place or moved, resized to n elements.
realloc(h, ptr, n, nbytes) ==
    LET old == IF ptr = NULL THEN <<>> ELSE h[ptr].mem
        released == IF ptr = NULL THEN h ELSE [h EXCEPT ![ptr] = FreeBlk]
    IN IF nbytes = 0
       THEN {[ptr |-> NULL, heap |-> released, oom |-> FALSE]} \cup
            {[ptr |-> a, oom |-> FALSE,
              heap |-> [released EXCEPT ![a] = [live |-> TRUE, mem |-> <<>>]]] :
                a \in realloc_places(h, ptr)}
       ELSE {[ptr |-> NULL, heap |-> h, oom |-> TRUE]} \cup
            {[ptr |-> a, oom |-> FALSE,
              heap |-> [released EXCEPT ![a] =
                          [live |-> TRUE, mem |-> realloc_copy(old, n)]]] :
                a \in realloc_places(h, ptr)}

\* free(ptr)
free(h, ptr) == IF ptr = NULL THEN h ELSE [h EXCEPT ![ptr] = FreeBlk]

----------------------------------------------------------------------------
(* Pointers into memory: the client's array, or base + off elements *)

NullSrc == [kind |-> "null", base |-> NULL, off |-> 0, data |-> <<>>]
UserSrc(d) == [kind |-> "user", base |-> NULL, off |-> 0, data |-> d]
HeapSrc(b, o) == [kind |-> "heap", base |-> b, off |-> o, data |-> <<>>]

IsNullPtr(p) == p.kind = "null" \/ (p.kind = "heap" /\ p.base = NULL /\ p.off = 0)

\* get_nth_item(items, index, obj_size): items + index*obj_size
get_nth_item(items, index) == HeapSrc(items, index)

\* the element i slots after p; bytes outside a live block are indeterminate
ReadMem(h, p, i) ==
    IF p.kind = "user"
    THEN IF i + 1 \in DOMAIN p.data THEN p.data[i + 1] ELSE Junk
    ELSE IF p.kind = "heap" /\ p.base # NULL /\ h[p.base].live
              /\ (p.off + i + 1) \in DOMAIN h[p.base].mem
         THEN h[p.base].mem[p.off + i + 1]
         ELSE Junk

\* memcpy(items + index, objects, count elements)
memcpy(h, items, index, objects, count) ==
    IF count = 0 \/ items = NULL THEN h
    ELSE [h EXCEPT ![items].mem =
            [j \in DOMAIN @ |->
                IF j > index /\ j <= index + count
                THEN ReadMem(h, objects, j - index - 1) ELSE @[j]]]

\* where an element pointer lies: blocks are laid out by address, each wide
\* enough for the longest buffer; NULL is address 0
PtrPos(base, off) == base * (LONG_MAX + 1) + off

\* the assertion of set_items: the count elements at objects and the count
\* elements at items + index lie strictly one after the other
set_items_disjoint(items, index, objects, count) ==
    LET dest == PtrPos(items, index)
        from == PtrPos(objects, 0)
    IN \/ from < dest /\ from + count <= dest
       \/ dest < from /\ dest + count <= from

\* (a bulk set that stops one element short)
set_items_one_short(h, items, index, objects, count) ==
    memcpy(h, items, index, objects, IF count > 1 THEN count - 1 ELSE count)

\* set_items(items, index, objects, obj_size, count)
set_items(h, items, index, objects, count) ==
    memcpy(h, items, index, objects, count)

\* (a memmove that starts one element too far to the right)
remove_shift_off_by_one(mem, index, old_len) ==
    [j \in DOMAIN mem |->
        IF j > index + 1 /\ j < old_len THEN mem[j + 1] ELSE mem[j]]

\* memmove(item_to_rm, item_to_rm + obj_size, bytes_to_move) in tsarray_remove
remove_shift(mem, index, old_len) ==
    [j \in DOMAIN mem |->
        IF j > index /\ j < old_len THEN mem[j + 1] ELSE mem[j]]

\* what the client reads at items[0 .. len)
Contents(priv, h) ==
    [i \in 1..priv.len |-> ReadMem(h, HeapSrc(priv.items, 0), i - 1)]

----------------------------------------------------------------------------
(* tsarray.c: the container engine.  Each function is the set of its       *)
(* possible results, one per verdict of the allocator.                     *)

\* the descriptor as tsarray_new leaves it; has_len_hint is never written
\* there, so it holds whatever malloc's memory held
new_priv(obj_size, garbage) ==
    [live |-> TRUE, obj_size |-> obj_size, capacity |-> 0, len |-> 0,
     len_hint |-> 0, has_len_hint |-> garbage, items |-> NULL]

\* a descriptor slot that holds no container
NoPriv == [new_priv(0, FALSE) EXCEPT !.live = FALSE]

\* tsarray_new: NULL when malloc fails
tsarray_new(obj_size) ==
    {[null |-> TRUE, priv |-> NoPriv]} \cup
    {[null |-> FALSE, priv |-> new_priv(obj_size, g)] : g \in BOOLEAN}

\* (a plan that never touches a capacity the new length fits in)
planned_capacity_grow_only(priv, new_len) ==
    IF new_len <= priv.capacity THEN priv.capacity
    ELSE calc_new_capacity(priv.obj_size, priv.capacity, new_len)

planned_capacity(priv, new_len) ==
    IF priv.has_len_hint
    THEN calc_new_capacity_with_hint(priv.obj_size, priv.capacity, new_len,
                                     priv.len_hint)
    ELSE calc_new_capacity(priv.obj_size, priv.capacity, new_len)

\* (a resize that records the new length before it knows realloc succeeded)
resize_failed_sets_len(priv, new_len) == [priv EXCEPT !.len = new_len]

\* the descriptor when realloc has failed
resize_failed(priv, new_len) == priv

\* (a resize that takes the new capacity for the new length)
resize_done_len_is_capacity(priv, new_items, new_capacity, new_len) ==
    [priv EXCEPT !.items = new_items, !.capacity = new_capacity,
                 !.len = new_capacity]

\* (a resize that forgets to record the new capacity)
resize_done_keeps_capacity(priv, new_items, new_capacity, new_len) ==
    [priv EXCEPT !.items = new_items, !.len = new_len]

\* the descriptor when realloc has returned new_items
resize_done(priv, new_items, new_capacity, new_len) ==
    [priv EXCEPT !.items = new_items, !.capacity = new_capacity,
                 !.len = new_len]

resize_unaddressable(priv, new_len) ==
    new_len > SIZE_MAX \/ ~can_size_mult(new_len, priv.obj_size)

tsarray_resize(priv, h, new_len) ==
    IF resize_unaddressable(priv, new_len)
    THEN {[ret |-> TSARRAY_ENOMEM, priv |-> priv, heap |-> h, oom |-> FALSE]}
    ELSE LET new_capacity == planned_capacity(priv, new_len)
         IN IF new_capacity # priv.capacity
            THEN {IF r.ptr = NULL /\ new_capacity # 0
                  THEN [ret |-> TSARRAY_ENOMEM,
                        priv |-> resize_failed(priv, new_len),
                        heap |-> r.heap, oom |-> r.oom]
                  ELSE [ret |-> TSARRAY_EOK,
                        priv |-> resize_done(priv, r.ptr, new_capacity, new_len),
                        heap |-> r.heap, oom |-> r.oom] :
                    r \in realloc(h, priv.items, new_capacity,
                                  UWrap(new_capacity * priv.obj_size))}
            ELSE {[ret |-> TSARRAY_EOK, priv |-> [priv EXCEPT !.len = new_len],
                   heap |-> h, oom |-> FALSE]}

\* tsarray_free: the heap once the buffer is released
tsarray_free(priv, h) == free(h, priv.items)

\* a constructor's result: no container, or a descriptor; crash marks a
\* store through a NULL descriptor
NullResult(h, oom) ==
    [null |-> TRUE, crash |-> FALSE, priv |-> NoPriv, heap |-> h, oom |-> oom]
MadeResult(priv, h) ==
    [null |-> FALSE, crash |-> FALSE, priv |-> priv, heap |-> h, oom |-> FALSE]

_tsarray_new_of_len(h, obj_size, len) ==
    UNION {IF n.null THEN {NullResult(h, TRUE)}
           ELSE {IF r.ret # TSARRAY_EOK
                 THEN NullResult(tsarray_free(r.priv, r.heap), r.oom)
                 ELSE MadeResult(r.priv, r.heap) :
                    r \in tsarray_resize(n.priv, h, len)} :
              n \in tsarray_new(obj_size)}

\* (a check of the hint against the index type alone)
new_hint_invalid_only_long(len_hint, obj_size) == ~ulong_fits_in_long(len_hint)

\* the argument check of tsarray_new_hint
new_hint_invalid(len_hint, obj_size) == ~is_valid_index(len_hint, obj_size)

tsarray_new_hint(h, obj_size, len_hint) ==
    IF new_hint_invalid(len_hint, obj_size) THEN {NullResult(h, FALSE)}
    ELSE UNION {IF n.null THEN {NullResult(h, TRUE)}
                ELSE {IF r.ret # TSARRAY_EOK
                      THEN NullResult(tsarray_free(r.priv, r.heap), r.oom)
                      ELSE MadeResult(r.priv, r.heap) :
                        r \in tsarray_resize(
                                [n.priv EXCEPT !.has_len_hint = TRUE,
                                               !.len_hint = len_hint], h, 0)} :
                   n \in tsarray_new(obj_size)}

tsarray_from_array(h, src, src_len, obj_size) ==
    IF ~ulong_fits_in_long(src_len) THEN {NullResult(h, FALSE)}
    ELSE {IF n.null THEN n
          ELSE IF src_len = 0 THEN n
          ELSE IF IsNullPtr(src)
               THEN NullResult(tsarray_free(n.priv, n.heap), FALSE)
          ELSE MadeResult(n.priv, memcpy(n.heap, n.priv.items, 0, src, src_len)) :
            n \in _tsarray_new_of_len(h, obj_size, src_len)}

\* (a copy that hands out the source's own buffer)
tsarray_copy_shallow(h, src_priv) == {MadeResult(src_priv, h)}

tsarray_copy(h, src_priv) ==
    tsarray_from_array(h, HeapSrc(src_priv.items, 0), src_priv.len,
                       src_priv.obj_size)

\* (a loop that walks forward whatever the sign of step)
slice_walk_forward_only(h, src_items, dst_items, real_start, step, slice_len) ==
    IF dst_items = NULL THEN h
    ELSE [h EXCEPT ![dst_items].mem =
            [j \in DOMAIN @ |->
                IF j <= slice_len
                THEN ReadMem(h, get_nth_item(src_items,
                                             real_start + (j - 1) * labs(step)), 0)
                ELSE @[j]]]

\* the loop of tsarray_slice: slice[i] = src[real_start + i*step]
slice_walk(h, src_items, dst_items, real_start, step, slice_len) ==
    IF dst_items = NULL THEN h
    ELSE [h EXCEPT ![dst_items].mem =
            [j \in DOMAIN @ |->
                IF j <= slice_len
                THEN ReadMem(h, get_nth_item(src_items, real_start + (j - 1) * step), 0)
                ELSE @[j]]]

\* (a walk that starts where the caller said, though it be beyond the array)
slice_real_start_uncapped(start, len) == start

\* when going backwards, the caller may ask to start beyond the array
slice_real_start(start, len) == Min(start, len - 1)

\* the indices of the source that tsarray_slice reads: lo_bound .. hi_bound-1
\* through tsarray_from_array when step is 1, real_start + i*step in its loop
\* otherwise
slice_reads(len, start, stop, step) ==
    LET lo_bound == Min(start, stop)
        hi_bound == Min(Max(start, stop), len)
    IN IF step = 0 \/ start = stop \/ (start < stop) # (step > 0)
          \/ lo_bound >= len
       THEN {}
       ELSE IF step = 1 THEN lo_bound..(hi_bound - 1)
       ELSE LET slice_len == UWrap((hi_bound - lo_bound - 1) \div labs(step)) + 1
            IN {slice_real_start(start, len) + i * step : i \in 0..(slice_len - 1)}

\* a read before or past the allocated buffer is undefined: the call may
\* deliver whatever lies there or die on the access
slice_reads_unallocated(src_priv, start, stop, step) ==
    \E i \in slice_reads(src_priv.len, start, stop, step) :
        i < 0 \/ i >= src_priv.capacity

tsarray_slice(h, src_priv, start, stop, step) ==
    LET obj_size == src_priv.obj_size
        len == src_priv.len
        lo_bound == Min(start, stop)
        hi_bound == Min(Max(start, stop), len)
    IN IF step = 0 THEN {NullResult(h, FALSE)}
       ELSE IF start = stop \/ (start < stop) # (step > 0) \/ lo_bound >= len
       THEN {IF n.null THEN NullResult(h, TRUE) ELSE MadeResult(n.priv, h) :
                n \in tsarray_new(obj_size)}
       ELSE (IF slice_reads_unallocated(src_priv, start, stop, step)
             THEN {[NullResult(h, FALSE) EXCEPT !.crash = TRUE]} ELSE {})
            \cup
            (IF step = 1
             THEN tsarray_from_array(h, get_nth_item(src_priv.items, lo_bound),
                                     UWrap(hi_bound - lo_bound), obj_size)
             ELSE LET slice_len == UWrap((hi_bound - lo_bound - 1) \div labs(step)) + 1
                      real_start == slice_real_start(start, len)
                  IN {IF n.null THEN [n EXCEPT !.crash = TRUE]
                      ELSE MadeResult(n.priv,
                              slice_walk(n.heap, src_priv.items, n.priv.items,
                                         real_start, step, slice_len)) :
                        n \in _tsarray_new_of_len(h, obj_size, slice_len)})

\* the comparison function of the tests: the sign of a - b
intcmp(a, b) == IF a > b THEN 1 ELSE IF a = b THEN 0 ELSE -1

\* the loop of minmax_scan from index i on, candidate being the item chosen
\* so far
RECURSIVE minmax_loop(_, _, _, _, _)
minmax_loop(priv, h, direction, i, candidate) ==
    IF i >= priv.len THEN candidate
    ELSE LET item == get_nth_item(priv.items, i)
             diff == intcmp(ReadMem(h, item, 0), ReadMem(h, candidate, 0))
         IN minmax_loop(priv, h, direction, i + 1,
                        IF same_sign(direction, diff) THEN item ELSE candidate)

\* a pointer to the chosen item, NULL for an empty array
minmax_scan(priv, h, direction) ==
    IF priv.len = 0 THEN NullSrc
    ELSE minmax_loop(priv, h, direction, 1, HeapSrc(priv.items, 0))

tsarray_min(priv, h) == minmax_scan(priv, h, -1)

tsarray_max(priv, h) == minmax_scan(priv, h, 1)

\* (a length check that forgets the element about to be added)
append_would_overflow_ignores_new(old_len) == ~can_add_within_long(old_len, 0)

\* the length check of tsarray_append
append_would_overflow(old_len) == ~can_add_within_long(old_len, 1)

\* a mutator's result on one descriptor
tsarray_append(priv, h, object) ==
    LET old_len == priv.len
    IN IF append_would_overflow(old_len)
       THEN {[ret |-> TSARRAY_EOVERFLOW, priv |-> priv, heap |-> h, oom |-> FALSE]}
       ELSE {IF r.ret # TSARRAY_EOK THEN r
             ELSE [r EXCEPT !.heap = set_items(r.heap, r.priv.items, old_len,
                                               UserSrc(<<object>>), 1)] :
                r \in tsarray_resize(priv, h, UWrap(old_len + 1))}

\* (an upper bound check that lets index = length through)
remove_index_error_off_by_one(index, old_len) ==
    IF index < 0 THEN TSARRAY_EINVAL
    ELSE IF index > old_len THEN TSARRAY_ENOENT
    ELSE TSARRAY_EOK

\* the argument checks of tsarray_remove
remove_index_error(index, old_len) ==
    IF index < 0 THEN TSARRAY_EINVAL
    ELSE IF index >= old_len THEN TSARRAY_ENOENT
    ELSE TSARRAY_EOK

tsarray_remove(priv, h, index) ==
    LET old_len == priv.len
        err == remove_index_error(index, old_len)
    IN IF err # TSARRAY_EOK
       THEN {[ret |-> err, priv |-> priv, heap |-> h, oom |-> FALSE]}
       ELSE LET h1 == IF index < UWrap(old_len - 1)
                      THEN [h EXCEPT ![priv.items].mem =
                                remove_shift(@, index, old_len)]
                      ELSE h
            IN tsarray_resize(priv, h1, UWrap(old_len - 1))

\* (an extend that keeps the source pointer it read before the resize)
extend_src_items_stale(src_before, src_after) == src_before.items

\* the source pointer set_items is given in tsarray_extend: tsarray_src->items,
\* read after the resize of the destination
extend_src_items(src_before, src_after) == src_after.items

\* tsarray_extend works on two descriptors that may be one and the same
tsarray_extend(a, h, dest, src) ==
    LET priv_dest == a[dest]
        priv_src == a[src]
        dest_len == priv_dest.len
        src_len == priv_src.len
    IN IF priv_dest.obj_size # priv_src.obj_size
       THEN {[ret |-> TSARRAY_EINVAL, arr |-> a, heap |-> h, oom |-> FALSE]}
       ELSE IF ~can_add_within_long(dest_len, src_len)
       THEN {[ret |-> TSARRAY_EOVERFLOW, arr |-> a, heap |-> h, oom |-> FALSE]}
       ELSE {LET a1 == [a EXCEPT ![dest] = r.priv]
             IN IF r.ret # TSARRAY_EOK
                THEN [ret |-> r.ret, arr |-> a1, heap |-> r.heap, oom |-> r.oom]
                ELSE [ret |-> TSARRAY_EOK, arr |-> a1, oom |-> r.oom,
                      heap |-> set_items(r.heap, a1[dest].items, dest_len,
                                  HeapSrc(extend_src_items(priv_src, a1[src]), 0),
                                  src_len)] :
               r \in tsarray_resize(priv_dest, h, UWrap(dest_len + src_len))}

----------------------------------------------------------------------------
(* The client: one action per API call *)

Live == {i \in Ids : arr[i].live}
Dead == Ids \ Live

Hints == {0, 3, LONG_MAX + 1}
RemoveIdx == -1..LONG_MAX
SliceIdx == 0..3
SliceSteps == {-2, -1, 0, 1, 2}
\* (src, src_len) pairs handed to tsarray_from_array
RawInputs ==
    {<<UserSrc(d), Len(d)>> : d \in {<<>>} \cup {<<v>> : v \in Vals}
                                  \cup {<<v, w>> : v \in Vals, w \in Vals}}
    \cup {<<NullSrc, n>> : n \in {0, 1, LONG_MAX + 1}}

Running == ret # RET_CRASH

Called(op, id, src, idx, oom, moved) ==
    call' = [op |-> op, id |-> id, src |-> src, idx |-> idx, oom |-> oom,
             moved |-> moved]

\* The test fixture: container 1 is set up first and torn down last; a
\* second container lives beside it only while both hold big elements.
MayCreate(id, obj_size) ==
    /\ id \in Dead
    /\ IF id = 1 THEN Live = {} /\ obj_size \in {1, BigObj}
       ELSE Live = {1} /\ obj_size \in BigSizes /\ arr[1].obj_size = BigObj

\* a constructor has returned result r for slot id, its contents being seq
Constructed(op, id, src, r, seq) ==
    /\ Called(op, id, src, 0, r.oom, FALSE)
    /\ heap' = r.heap
    /\ ret' = IF r.crash THEN RET_CRASH ELSE IF r.null THEN RET_NULL ELSE TSARRAY_EOK
    /\ IF r.null
       THEN UNCHANGED <<arr, abs>>
       ELSE /\ arr' = [arr EXCEPT ![id] = r.priv]
            /\ abs' = [abs EXCEPT ![id] = seq]

CallNew(id, obj_size) ==
    /\ Running /\ MayCreate(id, obj_size)
    /\ \E n \in tsarray_new(obj_size) :
          Constructed("new", id, id,
                      IF n.null THEN NullResult(heap, TRUE)
                      ELSE MadeResult(n.priv, heap), <<>>)

CallNewHint(id, obj_size, len_hint) ==
    /\ Running /\ MayCreate(id, obj_size)
    /\ \E r \in tsarray_new_hint(heap, obj_size, len_hint) :
          Constructed("new_hint", id, id, r, <<>>)

CallFromArray(id, obj_size, raw) ==
    /\ Running /\ MayCreate(id, obj_size)
    /\ \E r \in tsarray_from_array(heap, raw[1], raw[2], obj_size) :
          Constructed("from_array", id, id, r, raw[1].data)

CallCopy(id, src) ==
    /\ Running /\ src \in Live /\ MayCreate(id, arr[src].obj_size)
    /\ \E r \in tsarray_copy(heap, arr[src]) :
          Constructed("copy", id, src, r, Contents(arr[src], heap))

CallSlice(id, src, start, stop, step) ==
    /\ Running /\ src \in Live /\ MayCreate(id, arr[src].obj_size)
    /\ \E r \in tsarray_slice(heap, arr[src], start, stop, step) :
          Constructed("slice", id, src, r, Contents(r.priv, r.heap))

\* a mutator has returned on container id; seq is what the abstract
\* operation makes of abs[id].  After a failed call the abstract sequence is
\* taken afresh from what the client can read.
Mutated(op, id, src, idx, r, a1, seq) ==
    /\ Called(op, id, src, idx, r.oom, a1[id].items # arr[id].items)
    /\ arr' = a1
    /\ heap' = r.heap
    /\ ret' = r.ret
    /\ abs' = [abs EXCEPT ![id] = IF r.ret = TSARRAY_EOK THEN seq
                                  ELSE Contents(a1[id], r.heap)]

CallAppend(id, object) ==
    /\ Running /\ id \in Live
    /\ \E r \in tsarray_append(arr[id], heap, object) :
          Mutated("append", id, id, 0, r, [arr EXCEPT ![id] = r.priv],
                  Append(abs[id], object))

CallExtend(dest, src) ==
    /\ Running /\ dest \in Live /\ src \in Live
    /\ \E r \in tsarray_extend(arr, heap, dest, src) :
          Mutated("extend", dest, src, 0, r, r.arr,
                  abs[dest] \o Contents(arr[src], heap))

RemoveAt(seq, index) ==
    [j \in 1..(Len(seq) - 1) |-> IF j <= index THEN seq[j] ELSE seq[j + 1]]

CallRemove(id, index) ==
    /\ Running /\ id \in Live /\ index <= arr[id].len
    /\ \E r \in tsarray_remove(arr[id], heap, index) :
          Mutated("remove", id, id, index, r, [arr EXCEPT ![id] = r.priv],
                  RemoveAt(abs[id], index))

CallFree(id) ==
    /\ Running /\ id \in Live /\ (id = 1 => Live = {1})
    /\ Called("free", id, id, 0, FALSE, FALSE)
    /\ heap' = tsarray_free(arr[id], heap)
    /\ arr' = [arr EXCEPT ![id] = NoPriv]
    /\ ret' = TSARRAY_EOK
    /\ abs' = [abs EXCEPT ![id] = <<>>]

Init ==
    /\ arr = [i \in Ids |-> NoPriv]
    /\ heap = [a \in Addrs |-> FreeBlk]
    /\ call = [op |-> "none", id |-> 0, src |-> 0, idx |-> 0, oom |-> FALSE,
               moved |-> FALSE]
    /\ ret = TSARRAY_EOK
    /\ abs = [i \in Ids |-> <<>>]

Next ==
    \/ \E id \in Ids, sz \in ObjSizes : CallNew(id, sz)
    \/ \E id \in Ids, sz \in ObjSizes, hint \in Hints : CallNewHint(id, sz, hint)
    \/ \E id \in Ids, sz \in ObjSizes, raw \in RawInputs : CallFromArray(id, sz, raw)
    \/ \E id \in Ids, src \in Ids : CallCopy(id, src)
    \/ \E id \in Ids, src \in Ids, start \in SliceIdx, stop \in SliceIdx,
          step \in SliceSteps : CallSlice(id, src, start, stop, step)
    \/ \E id \in Ids, v \in Vals : CallAppend(id, v)
    \/ \E dest \in Ids, src \in Ids : CallExtend(dest, src)
    \/ \E id \in Ids, index \in RemoveIdx : CallRemove(id, index)
    \/ \E id \in Ids : CallFree(id)

Spec == Init /\ [][Next]_vars

----------------------------------------------------------------------------
(* Slicing a container of small elements: the source is built once by      *)
(* tsarray_from_array, slices of it are taken and freed.                   *)

SliceSrcLen == 4
SliceArgs == 0..(SliceSrcLen + 1)
SliceStepArgs == {-3, -2, -1, 0, 1, 2, 3}

\* the arrays a client may hand to tsarray_from_array, up to n elements
Seqs(n) == UNION {[1..k -> Vals] : k \in 0..n}

EmptyHeap == [a \in Addrs |-> FreeBlk]

\* container 1 as tsarray_from_array(d, Len(d), obj_size) returns it, nothing
\* else being allocated
SourceBuilt(d, obj_size) ==
    \E r \in tsarray_from_array(EmptyHeap, UserSrc(d), Len(d), obj_size) :
        /\ ~r.null
        /\ arr = [i \in Ids |-> IF i = 1 THEN r.priv ELSE NoPriv]
        /\ heap = r.heap
        /\ call = [op |-> "from_array", id |-> 1, src |-> 1, idx |-> 0,
                   oom |-> FALSE, moved |-> FALSE]
        /\ ret = TSARRAY_EOK
        /\ abs = [i \in Ids |-> IF i = 1 THEN d ELSE <<>>]

InitSlice == \E d \in Seqs(SliceSrcLen) : SourceBuilt(d, 1)

\* a constructor called with arguments args has returned result r for slot id
Returned(op, id, src, args, r) ==
    /\ Called(op, id, src, args, r.oom, FALSE)
    /\ heap' = r.heap
    /\ ret' = IF r.crash THEN RET_CRASH
              ELSE IF r.null THEN RET_NULL ELSE TSARRAY_EOK
    /\ IF r.null
       THEN UNCHANGED <<arr, abs>>
       ELSE /\ arr' = [arr EXCEPT ![id] = r.priv]
            /\ abs' = [abs EXCEPT ![id] = Contents(r.priv, r.heap)]

\* tsarray_slice(container 1, start, stop, step), its result kept as container
\* 2; a test that was handed no slice ends there
TakeSlice(start, stop, step) ==
    /\ ret = TSARRAY_EOK /\ 1 \in Live /\ 2 \in Dead
    /\ \E r \in tsarray_slice(heap, arr[1], start, stop, step) :
          Returned("slice", 2, 1, <<start, stop, step>>, r)

\* tsarray_free of the slice
DropSlice == CallFree(2)

NextSlice ==
    \/ \E start \in SliceArgs, stop \in SliceArgs, step \in SliceStepArgs :
          TakeSlice(start, stop, step)
    \/ DropSlice

SpecSlice == InitSlice /\ [][NextSlice]_vars

\* start and stop are signed longs: values below zero are passed as well
SignedSliceArgs == (-2)..(SliceSrcLen + 1)

NextSliceSigned ==
    \/ \E start, stop \in SignedSliceArgs, step \in SliceStepArgs :
          TakeSlice(start, stop, step)
    \/ DropSlice

SpecSliceSigned == InitSlice /\ [][NextSliceSigned]_vars

----------------------------------------------------------------------------
(* Scanning a container of small elements for its smallest and largest     *)
(* item.                                                                   *)

ScanSrcLen == 4

InitScan == \E d \in Seqs(ScanSrcLen) : SourceBuilt(d, 1)

\* a scan has returned pointer p; nothing is written
Scanned(op, p) ==
    /\ Called(op, 1, 1, p, FALSE, FALSE)
    /\ ret' = TSARRAY_EOK
    /\ UNCHANGED <<arr, heap, abs>>

CallMin == 1 \in Live /\ Scanned("min", tsarray_min(arr[1], heap))

CallMax == 1 \in Live /\ Scanned("max", tsarray_max(arr[1], heap))

NextScan == CallMin \/ CallMax

SpecScan == InitScan /\ [][NextScan]_vars

----------------------------------------------------------------------------
(* Construction: one container is made by a constructor, with any element  *)
(* size and hint, and freed.                                               *)

CtorSizes == {0, 1, 2, 3} \cup BigSizes
CtorHints == 0..(LONG_MAX + 1)

MakeNew(obj_size) ==
    /\ Running /\ 1 \in Dead
    /\ \E n \in tsarray_new(obj_size) :
          Returned("new", 1, 1, <<obj_size>>,
                   IF n.null THEN NullResult(heap, TRUE)
                   ELSE MadeResult(n.priv, heap))

MakeNewHint(obj_size, len_hint) ==
    /\ Running /\ 1 \in Dead
    /\ \E r \in tsarray_new_hint(heap, obj_size, len_hint) :
          Returned("new_hint", 1, 1, <<obj_size, len_hint>>, r)

MakeFromArray(obj_size, raw) ==
    /\ Running /\ 1 \in Dead
    /\ \E r \in tsarray_from_array(heap, raw[1], raw[2], obj_size) :
          Returned("from_array", 1, 1, <<obj_size, raw[2]>>, r)

NextCtor ==
    \/ \E sz \in CtorSizes : MakeNew(sz)
    \/ \E sz \in CtorSizes, hint \in CtorHints : MakeNewHint(sz, hint)
    \/ \E sz \in CtorSizes, raw \in RawInputs : MakeFromArray(sz, raw)
    \/ CallFree(1)

SpecCtor == Init /\ [][NextCtor]_vars

----------------------------------------------------------------------------
(* The planners on their own: the arguments tsarray_resize can hand them   *)
(* are drawn at the start, and one planner is applied.                     *)

PlanSizes == 1..SIZE_MAX

\* tsarray_resize lets through a new length whose bytes can be counted; a
\* capacity is a count the planners returned; the hint passed tsarray_new_hint
PlanArgs ==
    {<<sz, old, new, hint>> \in
        PlanSizes \X (0..LONG_MAX) \X (0..LONG_MAX) \X (0..LONG_MAX) :
        /\ can_size_mult(old, sz)
        /\ can_size_mult(new, sz)
        /\ is_valid_index(hint, sz)}

InitPlan ==
    \E a \in PlanArgs :
        /\ arr = [i \in Ids |-> NoPriv]
        /\ heap = EmptyHeap
        /\ call = [op |-> "none", id |-> 0, src |-> 0, idx |-> a,
                   oom |-> FALSE, moved |-> FALSE]
        /\ ret = 0
        /\ abs = [i \in Ids |-> <<>>]

Planned(op, r) ==
    /\ call.op = "none"
    /\ call' = [call EXCEPT !.op = op]
    /\ ret' = r
    /\ UNCHANGED <<arr, heap, abs>>

PlanDefault ==
    Planned("calc_new_capacity",
            calc_new_capacity(call.idx[1], call.idx[2], call.idx[3]))

PlanWithHint ==
    Planned("calc_new_capacity_with_hint",
            calc_new_capacity_with_hint(call.idx[1], call.idx[2], call.idx[3],
                                        call.idx[4]))

NextPlan == PlanDefault \/ PlanWithHint

SpecPlan == InitPlan /\ [][NextPlan]_vars

----------------------------------------------------------------------------
(* The capped addition guards on their own, over every unsigned long.      *)

AddArgs == (0..ULONG_MAX) \X (0..ULONG_MAX) \X (0..ULONG_MAX)

InitAdd ==
    \E a \in AddArgs :
        /\ arr = [i \in Ids |-> NoPriv]
        /\ heap = EmptyHeap
        /\ call = [op |-> "none", id |-> 0, src |-> 0, idx |-> a,
                   oom |-> FALSE, moved |-> FALSE]
        /\ ret = 0
        /\ abs = [i \in Ids |-> <<>>]

\* a C truth value
CBool(b) == IF b THEN 1 ELSE 0

CheckAddWithin ==
    Planned("can_add_ulong_within",
            CBool(can_add_ulong_within(call.idx[1], call.idx[2], call.idx[3])))

AddCapped ==
    Planned("ulong_add_capped",
            ulong_add_capped(call.idx[1], call.idx[2], call.idx[3]))

NextAdd == CheckAddWithin \/ AddCapped

SpecAdd == InitAdd /\ [][NextAdd]_vars

----------------------------------------------------------------------------
(* Filling and draining: one container of small elements made by           *)
(* tsarray_new, then appends and removes only.                             *)

InitFill ==
    \E n \in tsarray_new(1) :
        /\ ~n.null
        /\ arr = [i \in Ids |-> IF i = 1 THEN n.priv ELSE NoPriv]
        /\ heap = EmptyHeap
        /\ call = [op |-> "new", id |-> 1, src |-> 1, idx |-> 0,
                   oom |-> FALSE, moved |-> FALSE]
        /\ ret = TSARRAY_EOK
        /\ abs = [i \in Ids |-> <<>>]

NextFill ==
    \/ \E v \in Vals : CallAppend(1, v)
    \/ \E index \in RemoveIdx : CallRemove(1, index)

SpecFill == InitFill /\ [][NextFill]_vars

----------------------------------------------------------------------------
(* Properties *)

\* C1: the contents refine the abstract sequence: every live container has
\* the abstract sequence's length and, element by element, its values, after
\* any run of successful append, extend and remove calls.
C1_Refines ==
    \A id \in Live :
        /\ arr[id].len = Len(abs[id])
        /\ \A i \in 1..Len(abs[id]) :
              ReadMem(heap, get_nth_item(arr[id].items, i - 1), 0) = abs[id][i]

\* a full container of small elements, just grown by a realloc that moved it,
\* holding both values
C1_Witness ==
    /\ call.op = "append" /\ ret = TSARRAY_EOK /\ call.moved
    /\ arr[call.id].len = LONG_MAX
    /\ \E i, j \in 1..Len(abs[call.id]) : abs[call.id][i] # abs[call.id][j]

\* C2: in every reachable state, whatever the calls returned and whatever
\* the allocator did, 0 <= length <= capacity.
C2_LenWithinCapacity ==
    \A id \in Live : 0 <= arr[id].len /\ arr[id].len <= arr[id].capacity

\* an extend on a non-empty container during which realloc failed
C2_Witness ==
    /\ call.op = "extend" /\ call.oom /\ ret = TSARRAY_ENOMEM
    /\ arr[call.id].len > 0

\* C3: the buffer pointer is NULL exactly when the capacity is zero.
C3_NullIffNoCapacity ==
    \A id \in Live : (arr[id].items = NULL) <=> (arr[id].capacity = 0)

\* the container a call was made on, before and after it returned
Target == arr[call'.id]
TargetAfter == arr'[call'.id]
ContentsBefore(id) == Contents(arr[id], heap)
ContentsAfter(id) == Contents(arr'[id], heap')
Addressable(n, obj_size) == n * obj_size <= SIZE_MAX

C5_FailedGrowthChangesNothing ==
    [][(call'.op \in {"append", "extend"} /\ call'.oom)
       => (ret' = TSARRAY_ENOMEM /\ arr' = arr /\ heap' = heap)]_vars

\* an append to a non-empty container during which realloc failed
C5_Witness ==
    /\ call.op = "append" /\ call.oom /\ ret = TSARRAY_ENOMEM
    /\ arr[call.id].len > 0

\* C6: when the shrinking realloc inside remove fails, remove still returns
\* success, the length is one less, capacity and buffer are the old ones and
\* the elements are the old ones without the one at index.
C6_RemoveSurvivesFailedShrink ==
    [][(/\ call'.op = "remove" /\ call'.oom
        /\ 0 <= call'.idx /\ call'.idx < Target.len)
       => (/\ ret' = TSARRAY_EOK
           /\ TargetAfter.len = Target.len - 1
           /\ TargetAfter.capacity = Target.capacity
           /\ TargetAfter.items = Target.items
           /\ ContentsAfter(call'.id)
                 = RemoveAt(ContentsBefore(call'.id), call'.idx))]_vars

\* C7: a successful remove at k takes one off the length and leaves the
\* other elements in their order: the old element i for i < k, the old
\* element i + 1 from k on.
C7_RemoveKeepsOrder ==
    [][(call'.op = "remove" /\ ret' = TSARRAY_EOK)
       => (/\ TargetAfter.len = Target.len - 1
           /\ ContentsAfter(call'.id)
                 = RemoveAt(ContentsBefore(call'.id), call'.idx))]_vars

\* a successful remove from the middle that left elements of both values
C7_Witness ==
    /\ call.op = "remove" /\ ret = TSARRAY_EOK
    /\ 0 < call.idx /\ call.idx < arr[call.id].len
    /\ \E i, j \in 1..arr[call.id].len :
          Contents(arr[call.id], heap)[i] # Contents(arr[call.id], heap)[j]

\* C8: remove returns EINVAL for a negative index and ENOENT for an index at
\* or past the length (an empty container included); descriptor and heap are
\* then unchanged.
C8_RemoveRejectsBadIndex ==
    [][call'.op = "remove" =>
        /\ call'.idx < 0
              => (ret' = TSARRAY_EINVAL /\ arr' = arr /\ heap' = heap)
        /\ call'.idx >= Target.len
              => (ret' = TSARRAY_ENOENT /\ arr' = arr /\ heap' = heap)]_vars

\* a remove at index = length refused on a non-empty container
C8_Witness ==
    /\ call.op = "remove" /\ ret = TSARRAY_ENOENT
    /\ arr[call.id].len > 0 /\ call.idx = arr[call.id].len

\* C9: a successful extend(dest, src) of distinct containers leaves src as it
\* was (descriptor and elements) and makes dest its old elements followed by
\* src's, dest's length being the sum of the two.
C9_ExtendDistinct ==
    [][(call'.op = "extend" /\ call'.id # call'.src /\ ret' = TSARRAY_EOK)
       => (/\ arr'[call'.src] = arr[call'.src]
           /\ ContentsAfter(call'.src) = ContentsBefore(call'.src)
           /\ TargetAfter.len = Target.len + arr[call'.src].len
           /\ ContentsAfter(call'.id)
                 = ContentsBefore(call'.id) \o ContentsBefore(call'.src))]_vars

\* a successful extend of one container by another, the destination moved
C9_Witness ==
    /\ call.op = "extend" /\ call.id # call.src /\ ret = TSARRAY_EOK
    /\ call.moved
    /\ arr[call.src].len > 0 /\ arr[call.id].len > arr[call.src].len

\* C10: extend(C, C) on a container of length n succeeds with length 2n and
\* the old contents twice over, also when the resize moves the buffer.
C10_ExtendSelf ==
    [][(call'.op = "extend" /\ call'.id = call'.src /\ ret' = TSARRAY_EOK)
       => (/\ TargetAfter.len = 2 * Target.len
           /\ ContentsAfter(call'.id)
                 = ContentsBefore(call'.id) \o ContentsBefore(call'.id))]_vars

\* a container of two different elements extended with itself, its buffer
\* moved by the resize
C10_Witness ==
    /\ call.op = "extend" /\ call.id = call.src /\ ret = TSARRAY_EOK
    /\ call.moved /\ arr[call.id].len = 4
    /\ abs[call.id][1] # abs[call.id][2]

\* the arguments of the slice call just made
SliceStart == call'.idx[1]
SliceStop == call'.idx[2]
SliceStep == call'.idx[3]
SliceReturned == call'.op = "slice" /\ call'.src = 1 /\ ret' = TSARRAY_EOK

\* count elements of seq from index first, step apart
PyWalk(seq, first, count, step) ==
    [k \in 1..count |-> seq[first + (k - 1) * step + 1]]

\* Python's seq[start:stop:step] for start, stop >= 0 and step # 0
PySlice(seq, start, stop, step) ==
    LET n == Len(seq)
        first == IF step > 0 THEN Min(start, n) ELSE Min(start, n - 1)
        last == IF step > 0 THEN Min(stop, n) ELSE Min(stop, n - 1)
        span == IF step > 0 THEN last - first ELSE first - last
        count == IF span > 0 THEN (span - 1) \div labs(step) + 1 ELSE 0
    IN PyWalk(seq, first, count, step)

\* a backward slice asked to start at or beyond the end, down to index stop
\* inclusive: the elements n-1, n-1+step, ... that lie at or above stop
BackwardFromEnd(seq, stop, step) ==
    PyWalk(seq, Len(seq) - 1, (Len(seq) - stop - 1) \div labs(step) + 1, step)

\* C11 (as stated): every slice that returns a container returns Python's
\* A[start:stop:step]; the element at index stop is never part of it.
C11_SliceIsPythonSlice ==
    [][SliceReturned
       => ContentsAfter(2)
             = PySlice(ContentsBefore(1), SliceStart, SliceStop, SliceStep)]_vars

\* C11 (amended): a slice that returns a container returns Python's
\* A[start:stop:step], except for a backward step with start at or beyond
\* A.length and stop below it: then it returns A[length-1], A[length-1+step],
\* ... down to index stop inclusive.
C11_SliceSemantics ==
    [][SliceReturned
       => ContentsAfter(2)
             = IF /\ SliceStep < 0
                  /\ SliceStart >= arr[1].len
                  /\ SliceStop < arr[1].len
               THEN BackwardFromEnd(ContentsBefore(1), SliceStop, SliceStep)
               ELSE PySlice(ContentsBefore(1), SliceStart, SliceStop,
                            SliceStep)]_vars

\* a backward slice by two, asked to start beyond a source of four elements,
\* that yields two elements of different values
C11_Witness ==
    /\ call.op = "slice" /\ ret = TSARRAY_EOK
    /\ call.idx = <<5, 1, -2>> /\ arr[1].len = 4
    /\ arr[2].len = 2 /\ abs[2][1] # abs[2][2]

\* C12: slice(A, A.length, 0, -1) returns a container of A's length holding
\* A's elements in reverse order: result[i] = A[A.length - 1 - i].
C12_ReverseAll ==
    [][(SliceReturned /\ call'.idx = <<arr[1].len, 0, -1>>)
       => (/\ TargetAfter.len = arr[1].len
           /\ \A i \in 0..(arr[1].len - 1) :
                 ContentsAfter(2)[i + 1]
                    = ContentsBefore(1)[arr[1].len - 1 - i + 1])]_vars

\* the whole of a four-element source reversed, its ends being different
C12_Witness ==
    /\ call.op = "slice" /\ ret = TSARRAY_EOK
    /\ arr[1].len = 4 /\ call.idx = <<4, 0, -1>>
    /\ arr[2].len = 4 /\ abs[2][1] # abs[2][4] /\ abs[2][1] = abs[1][4]

\* what a successful copy must have made of its source, bar the condition on
\* the buffer pointers
CopyIsFaithful ==
    /\ TargetAfter.len = arr[call'.src].len
    /\ ContentsAfter(call'.id) = ContentsBefore(call'.src)
    /\ arr'[call'.src] = arr[call'.src]
    /\ ContentsAfter(call'.src) = ContentsBefore(call'.src)

\* a mutator called on one container leaves every other container alone
OthersUntouched ==
    \A other \in Live \ {call'.id} :
        /\ arr'[other] = arr[other]
        /\ ContentsAfter(other) = ContentsBefore(other)

\* C13 (as stated): copy(A) yields B with A's length and elements, leaves A
\* unchanged, and B.buffer differs from A.buffer for every A, the empty one
\* included; mutations of B never change A.
C13_CopyAsStated ==
    [][/\ (call'.op = "copy" /\ ret' = TSARRAY_EOK)
             => (CopyIsFaithful /\ TargetAfter.items # arr[call'.src].items)
       /\ call'.op \in {"append", "extend", "remove"} => OthersUntouched]_vars

\* C13 (amended): copy(A) yields B with A's length and elements and leaves A
\* unchanged; for a non-empty A, B has a buffer of its own, different from
\* A's; for an empty A, B has no buffer (NULL), as A may have none either.
\* Mutations of B never change A.
C13_Copy ==
    [][/\ (call'.op = "copy" /\ ret' = TSARRAY_EOK)
             => /\ CopyIsFaithful
                /\ arr[call'.src].len > 0
                      => /\ TargetAfter.items # NULL
                         /\ TargetAfter.items # arr[call'.src].items
                /\ arr[call'.src].len = 0 => TargetAfter.items = NULL
       /\ call'.op \in {"append", "extend", "remove"} => OthersUntouched]_vars

\* a copy of a container of two different elements
C13_Witness ==
    /\ call.op = "copy" /\ ret = TSARRAY_EOK
    /\ arr[call.src].len = 2 /\ abs[call.src][1] # abs[call.src][2]
    /\ abs[call.id] = abs[call.src]

\* the earliest position of seq that no element is strictly below (dir = -1)
\* or strictly above (dir = 1), as a pointer into items; NULL if seq is empty
Extreme(seq, items, dir) ==
    IF seq = <<>> THEN NullSrc
    ELSE LET best(i) == \A j \in 1..Len(seq) : intcmp(seq[j], seq[i]) # dir
             first == CHOOSE i \in 1..Len(seq) :
                         best(i) /\ \A k \in 1..(i - 1) : ~best(k)
         IN get_nth_item(items, first - 1)

\* C14: min (max) returns the element at the smallest index that no element
\* compares strictly less (greater) than, the earliest position winning on
\* ties; an empty container yields NULL; the container is not changed.
C14_MinMax ==
    [][/\ call'.op = "min"
             => /\ call'.idx = Extreme(ContentsBefore(1), arr[1].items, -1)
                /\ arr' = arr /\ heap' = heap
       /\ call'.op = "max"
             => /\ call'.idx = Extreme(ContentsBefore(1), arr[1].items, 1)
                /\ arr' = arr /\ heap' = heap]_vars

\* the largest of <<1, 2, 2, 1>>: the first of the two tied items
C14_Witness ==
    /\ call.op = "max" /\ abs[1] = <<1, 2, 2, 1>>
    /\ call.idx = get_nth_item(arr[1].items, 1)

\* C15: a slice whose result could not be allocated, for any non-zero step,
\* and a slice with a zero step return NULL, the program carrying on with
\* descriptors and heap as they were.
C15_SliceFailureReturnsNull ==
    [][(call'.op = "slice" /\ (call'.oom \/ call'.idx[3] = 0))
       => (ret' = RET_NULL /\ arr' = arr /\ heap' = heap)]_vars

\* C16: no constructor returns a container whose element size is zero.
C16_NoZeroElementSize ==
    \A id \in Live : arr[id].obj_size > 0

\* C17: tsarray_new_hint(obj_size, hint) returns NULL when hint is not a
\* valid index for obj_size; a container it returns is empty, remembers the
\* hint, has capacity hint - 2*(hint/3) and a buffer exactly when that is not
\* zero; when the first allocation fails it returns NULL and nothing stays
\* allocated.
C17_NewHint ==
    [][call'.op = "new_hint" =>
        LET obj_size == call'.idx[1]
            hint == call'.idx[2]
        IN /\ ~is_valid_index(hint, obj_size)
                 => (ret' = RET_NULL /\ arr' = arr /\ heap' = heap)
           /\ call'.oom => (ret' = RET_NULL /\ arr' = arr /\ heap' = heap)
           /\ ret' = TSARRAY_EOK
                 => /\ is_valid_index(hint, obj_size)
                    /\ TargetAfter.obj_size = obj_size
                    /\ TargetAfter.has_len_hint /\ TargetAfter.len_hint = hint
                    /\ TargetAfter.len = 0
                    /\ TargetAfter.capacity = hint - 2 * (hint \div 3)
                    /\ (TargetAfter.items = NULL) <=> (TargetAfter.capacity = 0)]_vars

\* a container made with the largest hint there is
C17_Witness ==
    /\ call.op = "new_hint" /\ ret = TSARRAY_EOK
    /\ call.idx = <<1, LONG_MAX>>
    /\ arr[1].capacity = LONG_MAX - 2 * (LONG_MAX \div 3) /\ arr[1].items # NULL

PlanOps == {"calc_new_capacity", "calc_new_capacity_with_hint"}
PlanObjSize == call.idx[1]
PlanOldCapacity == call.idx[2]
PlanNewLen == call.idx[3]
\* the precondition of the planner properties: capacity and length are valid
\* indices (the hint always is)
PlanArgsValid ==
    /\ is_valid_index(PlanOldCapacity, PlanObjSize)
    /\ is_valid_index(PlanNewLen, PlanObjSize)

\* C19: for valid arguments either planner returns a capacity that is at
\* least the new length, at most LONG_MAX, and whose size in bytes does not
\* exceed SIZE_MAX.
C19_PlannerRange ==
    (call.op \in PlanOps /\ PlanArgsValid)
        => /\ ret >= PlanNewLen
           /\ ret <= LONG_MAX
           /\ ret * PlanObjSize <= SIZE_MAX

\* either planner has grown a capacity and added a margin to the length
C19_Witness ==
    /\ call.op \in PlanOps /\ PlanArgsValid
    /\ PlanObjSize = 2 /\ PlanOldCapacity = 0 /\ PlanNewLen = 1
    /\ call.idx[4] = 0
    /\ ret = PlanNewLen + MIN_MARGIN

\* C20 (as stated): for valid arguments either planner returns a valid index.
C20_PlannerValidIndex ==
    (call.op \in PlanOps /\ PlanArgsValid)
        => is_valid_index(ret, PlanObjSize)

\* C20 (amended): for valid arguments the hinted planner returns a valid
\* index; the default planner returns a valid index or the new length plus its
\* full margin, a count whose last element would not fit below SIZE_MAX.
C20_PlannerValidIndexHinted ==
    PlanArgsValid =>
        /\ call.op = "calc_new_capacity_with_hint"
              => is_valid_index(ret, PlanObjSize)
        /\ call.op = "calc_new_capacity"
              => \/ is_valid_index(ret, PlanObjSize)
                 \/ /\ ret = PlanNewLen + PlanNewLen \div MARGIN_RATIO + MIN_MARGIN
                    /\ SIZE_MAX - ret * PlanObjSize < PlanObjSize - 1

\* the hinted planner has dropped a margin that the default planner keeps for
\* the same length and element size
C20_Witness ==
    /\ PlanArgsValid
    /\ call.op = "calc_new_capacity_with_hint"
    /\ PlanObjSize = 3 /\ PlanOldCapacity = 0 /\ PlanNewLen = 1
    /\ call.idx[4] = 0
    /\ ret = PlanNewLen
    /\ ~is_valid_index(calc_new_capacity(PlanObjSize, PlanOldCapacity, PlanNewLen),
                       PlanObjSize)

PlanLenHint == call.idx[4]

PlannerReference(obj_size, old_capacity, new_len) ==
    IF new_len <= old_capacity /\ new_len >= old_capacity \div 2
    THEN old_capacity
    ELSE LET margin == new_len \div 8 + 4
         IN IF new_len + margin > LONG_MAX
               \/ (new_len + margin) * obj_size > SIZE_MAX
            THEN new_len ELSE new_len + margin

\* C22: the default planner returns what its reference definition returns, and
\* returns less than the old capacity only for a new length below half of it.
C22_DefaultPlanner ==
    call.op = "calc_new_capacity"
        => /\ ret = PlannerReference(PlanObjSize, PlanOldCapacity, PlanNewLen)
           /\ ret < PlanOldCapacity => PlanNewLen < PlanOldCapacity \div 2

\* a shrink whose margin is dropped because of the size in bytes
C22_Witness ==
    /\ call.op = "calc_new_capacity"
    /\ PlanObjSize = 4 /\ PlanOldCapacity = 3 /\ PlanNewLen = 0
    /\ ret = 0

\* the rule table of the hinted planner, over the integers
HintedReference(obj_size, old_capacity, new_len, len_hint) ==
    LET est == len_hint \div 3
        one_sigma_low == len_hint - est
        one_sigma_high == len_hint + est
        two_sigma_low == len_hint - 2 * est
        grown == IF new_len + 4 < LONG_MAX THEN new_len + 4 ELSE LONG_MAX
        grown_is_valid == /\ grown * obj_size <= SIZE_MAX
                          /\ SIZE_MAX - grown * obj_size >= obj_size - 1
    IN IF /\ old_capacity >= new_len
          /\ old_capacity >= two_sigma_low
          /\ (old_capacity <= one_sigma_high \/ old_capacity - new_len <= est)
       THEN old_capacity
       ELSE IF new_len < two_sigma_low THEN two_sigma_low
       ELSE IF new_len < one_sigma_low THEN 2 * new_len - two_sigma_low
       ELSE IF new_len < len_hint THEN len_hint
       ELSE IF grown_is_valid THEN grown ELSE new_len

\* C23: for valid arguments the hinted planner returns what its rule table
\* says, never less than two_stddev_low; on the ramp (two_stddev_low <= new
\* length < one_stddev_low, capacity not kept) the result is at least the new
\* length, at most the hint, and a valid index.
C23_HintedPlanner ==
    (call.op = "calc_new_capacity_with_hint" /\ PlanArgsValid) =>
        LET est == PlanLenHint \div 3
            two_sigma_low == PlanLenHint - 2 * est
        IN /\ ret = HintedReference(PlanObjSize, PlanOldCapacity, PlanNewLen,
                                    PlanLenHint)
           /\ ret >= two_sigma_low
           /\ (ret # PlanOldCapacity /\ two_sigma_low <= PlanNewLen
                                     /\ PlanNewLen < PlanLenHint - est)
                => /\ ret = 2 * PlanNewLen - two_sigma_low
                   /\ PlanNewLen <= ret /\ ret <= PlanLenHint
                   /\ is_valid_index(ret, PlanObjSize)

\* a length in the middle of the ramp
C23_Witness ==
    /\ call.op = "calc_new_capacity_with_hint" /\ PlanArgsValid
    /\ PlanObjSize = 1 /\ PlanOldCapacity = 0 /\ PlanNewLen = 3
    /\ PlanLenHint = 6
    /\ ret = 4

\* C30: for all unsigned long x, y and cap, can_add_ulong_within(x, y, cap)
\* is true exactly when x + y <= cap over the integers, and
\* ulong_add_capped(x, y, cap) is the smaller of x + y and cap; the sum the
\* code computes is never reduced modulo 2^w.
C30_AddGuardsExact ==
    LET x == call.idx[1]
        y == call.idx[2]
        cap == call.idx[3]
    IN /\ call.op = "can_add_ulong_within" => (ret = 1) <=> (x + y <= cap)
       /\ call.op = "ulong_add_capped"
            => /\ ret = Min(x + y, cap)
               /\ ret # cap => (ret = x + y /\ x + y <= ULONG_MAX)

\* an addend above the cap, with a difference cap - y that wraps to a value
\* not below x
C30_Witness ==
    /\ call.op = "ulong_add_capped"
    /\ call.idx = <<1, LONG_MAX + 1, LONG_MAX>>
    /\ UWrap(call.idx[3] - call.idx[2]) >= call.idx[1]
    /\ ret = LONG_MAX

\* the capacity the default planner gives a container for length new_len
DefaultPlan(priv, new_len) ==
    calc_new_capacity(priv.obj_size, priv.capacity, new_len)

\* C25 (as stated): under the default planner a successful append to a
\* container with len < capacity leaves capacity and items unchanged.
C25_AppendWithRoomKeepsBuffer ==
    [][(call'.op = "append" /\ ret' = TSARRAY_EOK /\ ~Target.has_len_hint
          /\ Target.len < Target.capacity)
       => (TargetAfter.capacity = Target.capacity
             /\ TargetAfter.items = Target.items)]_vars

\* C25 (amended): under the default planner a successful append to a
\* container with len < capacity leaves capacity and items unchanged when
\* len + 1 >= capacity / MIN_USAGE_RATIO; below that the capacity becomes what
\* the planner plans for len + 1, and when this differs from the old capacity
\* the buffer is reallocated.
C25_AppendWithRoom ==
    [][(call'.op = "append" /\ ret' = TSARRAY_EOK /\ ~Target.has_len_hint
          /\ Target.len < Target.capacity)
       => /\ TargetAfter.len = Target.len + 1
          /\ Target.len + 1 >= Target.capacity \div 2
                => (TargetAfter.capacity = Target.capacity
                      /\ TargetAfter.items = Target.items)
          /\ Target.len + 1 < Target.capacity \div 2
                => LET new_len == Target.len + 1
                       margin == new_len \div 8 + 4
                   IN TargetAfter.capacity
                        = IF new_len + margin > LONG_MAX THEN new_len
                          ELSE new_len + margin
          /\ TargetAfter.capacity = Target.capacity
                => TargetAfter.items = Target.items]_vars

\* an append into a buffer of four free slots has moved the buffer away from
\* the address of the first allocation
C25_Witness ==
    /\ call.op = "append" /\ ret = TSARRAY_EOK /\ call.moved
    /\ ~arr[1].has_len_hint
    /\ arr[1].len = 1 /\ arr[1].capacity = 5
    /\ arr[1].items = 2 /\ ~heap[1].live

\* C26: a container made by tsarray_new has has_len_hint false, and every
\* capacity change made by append or remove is the default planner's.
C26_NewUsesDefaultPlanner ==
    [][(call'.op \in {"append", "remove"} /\ ret' = TSARRAY_EOK)
       => /\ ~TargetAfter.has_len_hint
          /\ TargetAfter.capacity # Target.capacity
                => TargetAfter.capacity = DefaultPlan(Target, TargetAfter.len)]_vars

\* C29: under the default planner, capacity <= max(2*len + 1, len + len/8 + 4)
\* in every state of a container of small elements.
C29_WasteBounded ==
    (1 \in Live /\ ~arr[1].has_len_hint)
        => arr[1].capacity
             <= Max(2 * arr[1].len + 1,
                    arr[1].len + arr[1].len \div MARGIN_RATIO + MIN_MARGIN)

\* a drained container at the edge of its hysteresis range
C29_Witness ==
    /\ call.op = "remove" /\ ret = TSARRAY_EOK /\ ~arr[1].has_len_hint
    /\ arr[1].len = 3 /\ arr[1].capacity = 2 * arr[1].len + 1

\* C27: every index of the source that a slice with a non-zero step reads
\* lies in [0, len), and the slice has as many elements as were read.
C27_SliceReadsInside ==
    [][(call'.op = "slice" /\ call'.idx[3] # 0) =>
         LET reads == slice_reads(arr[1].len, call'.idx[1], call'.idx[2],
                                  call'.idx[3])
         IN /\ \A i \in reads : 0 <= i /\ i < arr[1].len
            /\ ret' = TSARRAY_EOK => arr'[2].len = Cardinality(reads)]_vars

\* C28: whenever tsarray_extend gets past its resize, the destination buffer
\* is not NULL and the source elements and the destination slots handed to
\* set_items do not overlap.
C28_ExtendAssertionsHold ==
    [][(call'.op = "extend" /\ ret' = TSARRAY_EOK) =>
         /\ arr'[call'.id].items # NULL
         /\ set_items_disjoint(arr'[call'.id].items, arr[call'.id].len,
                               extend_src_items(arr[call'.src], arr'[call'.src]),
                               arr[call'.src].len)]_vars

====
